---- MODULE Spec2Model ----
(***************************************************************************)
(* QR: Redis-based data structures in Python (src/qr.py).                  *)
(*                                                                         *)
(* Four handle types (Deque, Queue, Stack, CappedCollection) address a     *)
(* list kept by a Redis server under a key.  Every method issues one Redis *)
(* command, or, for CappedCollection.push, one MULTI/EXEC pipeline of two  *)
(* commands; the server runs a command or a pipeline as one indivisible    *)
(* step, so a method call is one action and the calls of concurrent        *)
(* clients interleave as whole actions.                                    *)
(***************************************************************************)
EXTENDS Integers, Sequences, FiniteSets, TLC

(***************************************************************************)
(* Bounds of the model.                                                    *)
(***************************************************************************)
\* calls made in a scenario with a single handle
MaxCalls == 6
\* calls made in a scenario with several handles
MaxSharedCalls == 3
\* calls made in a scenario with a single Deque
MaxDequeCalls == 4
\* largest capacity a CappedCollection is constructed with
MaxSize == 2

\* The elements pushed: text, one of them a character that JSON escapes.
Elements == {"a", "\""}
Keys == {"A", "B"}
Clients == {"c1", "c2"}

VARIABLES
    handles,        \* the handle objects constructed: their client, type, key and size
    store,          \* the Redis server: key -> list, head first (an absent key holds <<>>)
    nullmultibulk,  \* the server answers LRANGE on an absent key with nil, not an empty list
    log,            \* the records handed to the 'qr' logger, in order
    hist,           \* history: the calls made so far, with the commands sent and the value returned
    calls           \* the number of calls the clients make in this run

vars == <<handles, store, nullmultibulk, log, hist, calls>>

(***************************************************************************)
(* Python values: None, a string, a list of strings, the text json.dumps   *)
(* returns (a sequence of characters).                                     *)
(***************************************************************************)
None == [t |-> "None"]
Str(e) == [t |-> "str", v |-> e]
List(l) == [t |-> "list", v |-> l]
Text(chars) == [t |-> "text", v |-> chars]

(***************************************************************************)
(* The Redis commands the handles send.                                    *)
(***************************************************************************)
LPUSH(key, element) == [name |-> "LPUSH", key |-> key, args |-> <<element>>]
RPUSH(key, element) == [name |-> "RPUSH", key |-> key, args |-> <<element>>]
LPOP(key) == [name |-> "LPOP", key |-> key, args |-> <<>>]
RPOP(key) == [name |-> "RPOP", key |-> key, args |-> <<>>]
LRANGE(key, start, stop) == [name |-> "LRANGE", key |-> key, args |-> <<start, stop>>]
LTRIM(key, start, stop) == [name |-> "LTRIM", key |-> key, args |-> <<start, stop>>]

(***************************************************************************)
(* The server's list commands.  Indexes are zero-based and inclusive, a    *)
(* negative index counts from the end of the list (-1 is the last          *)
(* element), and a range outside the list is empty.                        *)
(***************************************************************************)
Range(l, start, stop) ==
    LET len == Len(l)
        s0 == IF start < 0 THEN len + start ELSE start
        s == IF s0 < 0 THEN 0 ELSE s0
        e0 == IF stop < 0 THEN len + stop ELSE stop
        e == IF e0 >= len THEN len - 1 ELSE e0
    IN IF s > e \/ s >= len THEN <<>> ELSE SubSeq(l, s + 1, e + 1)

\* One command applied to the list at its key: the list left, and the reply.
Apply(l, cmd) ==
    CASE cmd.name = "LPUSH" ->
            [list |-> <<cmd.args[1]>> \o l, reply |-> [t |-> "int", v |-> Len(l) + 1]]
      [] cmd.name = "RPUSH" ->
            [list |-> Append(l, cmd.args[1]), reply |-> [t |-> "int", v |-> Len(l) + 1]]
      [] cmd.name = "LPOP" ->
            IF l = <<>> THEN [list |-> l, reply |-> None]
            ELSE [list |-> Tail(l), reply |-> Str(Head(l))]
      [] cmd.name = "RPOP" ->
            IF l = <<>> THEN [list |-> l, reply |-> None]
            ELSE [list |-> SubSeq(l, 1, Len(l) - 1), reply |-> Str(l[Len(l)])]
      [] cmd.name = "LRANGE" ->
            [list |-> l,
             reply |-> IF l = <<>> /\ nullmultibulk THEN None
                       ELSE List(Range(l, cmd.args[1], cmd.args[2]))]
      [] cmd.name = "LTRIM" ->
            [list |-> Range(l, cmd.args[1], cmd.args[2]), reply |-> [t |-> "status", v |-> "OK"]]

\* A pipeline run as MULTI/EXEC: every command in order, nothing in between.
RECURSIVE Pipeline_execute(_, _)
Pipeline_execute(st, cmds) ==
    IF cmds = <<>> THEN [store |-> st, replies |-> <<>>]
    ELSE LET cmd == Head(cmds)
             r == Apply(st[cmd.key], cmd)
             rest == Pipeline_execute([st EXCEPT ![cmd.key] = r.list], Tail(cmds))
         IN [store |-> rest.store, replies |-> <<r.reply>> \o rest.replies]

\* A single command sent on the connection: the store left, and its reply.
Redis(cmd) ==
    LET r == Pipeline_execute(store, <<cmd>>)
    IN [store |-> r.store, reply |-> r.replies[1]]

(***************************************************************************)
(* Python's "x or [ ]": a falsy x (None, an empty list) gives [ ].         *)
(***************************************************************************)
OrEmptyList(x) == IF x = None \/ x = List(<<>>) THEN List(<<>>) ELSE x

(***************************************************************************)
(* json.dumps of None or of a list of strings, as a sequence of            *)
(* characters: null, or [ "..." , "..." ] with  ", "  between the items    *)
(* and a backslash before a quote or a backslash inside a string.          *)
(***************************************************************************)
JsonChar(c) == IF c = "\"" \/ c = "\\" THEN <<"\\", c>> ELSE <<c>>

JsonString(e) == <<"\"">> \o JsonChar(e) \o <<"\"">>

RECURSIVE JsonItems(_)
JsonItems(l) ==
    IF l = <<>> THEN <<>>
    ELSE IF Len(l) = 1 THEN JsonString(l[1])
    ELSE JsonString(l[1]) \o <<",", " ">> \o JsonItems(Tail(l))

json_dumps(x) ==
    IF x = None THEN Text(<<"n", "u", "l", "l">>)
    ELSE Text(<<"[">> \o JsonItems(x.v) \o <<"]">>)

(***************************************************************************)
(* The 'qr' logger: log.debug('Pushed ** %s ** for key ** %s **' % ...)    *)
(* and log.debug('Popped ** %s ** from key ** %s **' % ...).  %s writes    *)
(* None as the text None.                                                  *)
(***************************************************************************)
Format(x) == IF x = None THEN "None" ELSE x.v

Pushed(element, key) == [verb |-> "Pushed", element |-> Format(Str(element)), key |-> key]

Popped(popped, key) == [verb |-> "Popped", element |-> Format(popped), key |-> key]

(***************************************************************************)
(* Handles.  size is read by CappedCollection only; the other types hold 0.*)
(***************************************************************************)
Handle(client, type, key, size) == [client |-> client, type |-> type, key |-> key, size |-> size]

\* The end of a call: the store as the commands left it, the call recorded
\* with the value it returns, the records it logged.
Complete(h, op, arg, cmds, st, ret, records) ==
    /\ Len(hist) < calls
    /\ store' = st
    /\ hist' = Append(hist, [h |-> h, op |-> op, arg |-> arg, cmds |-> cmds, ret |-> ret])
    /\ log' = log \o records
    /\ UNCHANGED <<handles, nullmultibulk, calls>>

(***************************************************************************)
(* Deque                                                                   *)
(***************************************************************************)
\* Mutant: pushback sends the push-right.
Deque_pushback_rpush(h, element) ==
    /\ h.type = "Deque"
    /\ LET cmd == RPUSH(h.key, element)
           push_it == Redis(cmd)
       IN Complete(h, "pushback", Str(element), <<cmd>>, push_it.store, None,
                   <<Pushed(element, h.key)>>)

Deque_pushback(h, element) ==
    /\ h.type = "Deque"
    /\ LET cmd == LPUSH(h.key, element)
           push_it == Redis(cmd)
       IN Complete(h, "pushback", Str(element), <<cmd>>, push_it.store, None,
                   <<Pushed(element, h.key)>>)

Deque_pushfront(h, element) ==
    /\ h.type = "Deque"
    /\ LET cmd == RPUSH(h.key, element)
           push_it == Redis(cmd)
       IN Complete(h, "pushfront", Str(element), <<cmd>>, push_it.store, None,
                   <<Pushed(element, h.key)>>)

\* Mutant: popfront ends without its return statement.
Deque_popfront_no_return(h) ==
    /\ h.type = "Deque"
    /\ LET cmd == RPOP(h.key)
           popped == Redis(cmd)
       IN Complete(h, "popfront", None, <<cmd>>, popped.store, None,
                   <<Popped(popped.reply, h.key)>>)

\* Mutant: popfront takes from the end pushback adds at.
Deque_popfront_lpop(h) ==
    /\ h.type = "Deque"
    /\ LET cmd == LPOP(h.key)
           popped == Redis(cmd)
       IN Complete(h, "popfront", None, <<cmd>>, popped.store, popped.reply,
                   <<Popped(popped.reply, h.key)>>)

Deque_popfront(h) ==
    /\ h.type = "Deque"
    /\ LET cmd == RPOP(h.key)
           popped == Redis(cmd)
       IN Complete(h, "popfront", None, <<cmd>>, popped.store, popped.reply,
                   <<Popped(popped.reply, h.key)>>)

\* Mutant: popback reads the head of the list and leaves it there.
Deque_popback_peek(h) ==
    /\ h.type = "Deque"
    /\ LET cmd == LPOP(h.key)
           popped == Redis(cmd)
       IN Complete(h, "popback", None, <<cmd>>, store, popped.reply,
                   <<Popped(popped.reply, h.key)>>)

Deque_popback(h) ==
    /\ h.type = "Deque"
    /\ LET cmd == LPOP(h.key)
           popped == Redis(cmd)
       IN Complete(h, "popback", None, <<cmd>>, popped.store, popped.reply,
                   <<Popped(popped.reply, h.key)>>)

Deque_elements(h) ==
    /\ h.type = "Deque"
    /\ LET cmd == LRANGE(h.key, 0, -1)
           all_elements == Redis(cmd)
       IN Complete(h, "elements", None, <<cmd>>, all_elements.store, all_elements.reply, <<>>)

Deque_elements_as_json(h) ==
    /\ h.type = "Deque"
    /\ LET cmd == LRANGE(h.key, 0, -1)
           all_elements == Redis(cmd)
       IN Complete(h, "elements_as_json", None, <<cmd>>, all_elements.store,
                   json_dumps(all_elements.reply), <<>>)

(***************************************************************************)
(* Queue                                                                   *)
(***************************************************************************)
\* Mutant: the push adds at the end the pop takes from.
Queue_push_rpush(h, element) ==
    /\ h.type = "Queue"
    /\ LET cmd == RPUSH(h.key, element)
           push_it == Redis(cmd)
       IN Complete(h, "push", Str(element), <<cmd>>, push_it.store, None,
                   <<Pushed(element, h.key)>>)

Queue_push(h, element) ==
    /\ h.type = "Queue"
    /\ LET cmd == LPUSH(h.key, element)
           push_it == Redis(cmd)
       IN Complete(h, "push", Str(element), <<cmd>>, push_it.store, None,
                   <<Pushed(element, h.key)>>)

\* Mutant: the pop takes from the end the push adds to.
Queue_pop_lpop(h) ==
    /\ h.type = "Queue"
    /\ LET cmd == LPOP(h.key)
           popped == Redis(cmd)
       IN Complete(h, "pop", None, <<cmd>>, popped.store, popped.reply,
                   <<Popped(popped.reply, h.key)>>)

Queue_pop(h) ==
    /\ h.type = "Queue"
    /\ LET cmd == RPOP(h.key)
           popped == Redis(cmd)
       IN Complete(h, "pop", None, <<cmd>>, popped.store, popped.reply,
                   <<Popped(popped.reply, h.key)>>)

Queue_elements(h) ==
    /\ h.type = "Queue"
    /\ LET cmd == LRANGE(h.key, 0, -1)
           all_elements == Redis(cmd)
       IN Complete(h, "elements", None, <<cmd>>, all_elements.store,
                   OrEmptyList(all_elements.reply), <<>>)

\* Mutant: elements_as_json without the "or [ ]" that elements has.
Queue_elements_as_json_not_normalized(h) ==
    /\ h.type = "Queue"
    /\ LET cmd == LRANGE(h.key, 0, -1)
           all_elements == Redis(cmd)
       IN Complete(h, "elements_as_json", None, <<cmd>>, all_elements.store,
                   json_dumps(all_elements.reply), <<>>)

Queue_elements_as_json(h) ==
    /\ h.type = "Queue"
    /\ LET cmd == LRANGE(h.key, 0, -1)
           all_elements == Redis(cmd)
       IN Complete(h, "elements_as_json", None, <<cmd>>, all_elements.store,
                   json_dumps(OrEmptyList(all_elements.reply)), <<>>)

(***************************************************************************)
(* CappedCollection                                                        *)
(***************************************************************************)
\* Mutant: the trim keeps index size too (one element more than the capacity).
CappedCollection_push_trim_off_by_one(h, element) ==
    /\ h.type = "CappedCollection"
    /\ LET pipe == <<LPUSH(h.key, element), LTRIM(h.key, 0, h.size)>>
           executed == Pipeline_execute(store, pipe)
       IN Complete(h, "push", Str(element), pipe, executed.store, None, <<>>)

\* Mutant: the two commands are sent as two calls, not as one pipeline, and
\* the elements() of some client is served between them.
CappedCollection_push_unbatched(h, element) ==
    /\ h.type = "CappedCollection"
    /\ Len(hist) < calls
    /\ \E reader \in handles :
          LET push == LPUSH(h.key, element)
              trim == LTRIM(h.key, 0, h.size - 1)
              read == LRANGE(reader.key, 0, -1)
              pushed == Pipeline_execute(store, <<push>>)
              seen == Pipeline_execute(pushed.store, <<read>>)
              trimmed == Pipeline_execute(seen.store, <<trim>>)
          IN /\ store' = trimmed.store
             /\ hist' = hist \o
                   <<[h |-> reader, op |-> "elements", arg |-> None, cmds |-> <<read>>,
                      ret |-> seen.replies[1]],
                     [h |-> h, op |-> "push", arg |-> Str(element), cmds |-> <<push, trim>>,
                      ret |-> None]>>
             /\ UNCHANGED <<handles, nullmultibulk, log, calls>>

\* Mutant: the pipeline trims first and pushes second.
CappedCollection_push_trim_first(h, element) ==
    /\ h.type = "CappedCollection"
    /\ LET pipe == <<LTRIM(h.key, 0, h.size - 1), LPUSH(h.key, element)>>
           executed == Pipeline_execute(store, pipe)
       IN Complete(h, "push", Str(element), pipe, executed.store, None, <<>>)

\* Mutant: the trim goes to the key of any handle of the client.
CappedCollection_push_trim_any_key(h, element) ==
    /\ h.type = "CappedCollection"
    /\ \E g \in handles :
        LET pipe == <<LPUSH(h.key, element), LTRIM(g.key, 0, h.size - 1)>>
            executed == Pipeline_execute(store, pipe)
        IN Complete(h, "push", Str(element), pipe, executed.store, None, <<>>)

CappedCollection_push(h, element) ==
    /\ h.type = "CappedCollection"
    /\ LET pipe == <<LPUSH(h.key, element), LTRIM(h.key, 0, h.size - 1)>>
           executed == Pipeline_execute(store, pipe)
       IN Complete(h, "push", Str(element), pipe, executed.store, None, <<>>)

\* Mutant: the pop takes from the end the push adds to.
CappedCollection_pop_lpop(h) ==
    /\ h.type = "CappedCollection"
    /\ LET cmd == LPOP(h.key)
           popped == Redis(cmd)
       IN Complete(h, "pop", None, <<cmd>>, popped.store, popped.reply,
                   <<Popped(popped.reply, h.key)>>)

CappedCollection_pop(h) ==
    /\ h.type = "CappedCollection"
    /\ LET cmd == RPOP(h.key)
           popped == Redis(cmd)
       IN Complete(h, "pop", None, <<cmd>>, popped.store, popped.reply,
                   <<Popped(popped.reply, h.key)>>)

CappedCollection_elements(h) ==
    /\ h.type = "CappedCollection"
    /\ LET cmd == LRANGE(h.key, 0, -1)
           all_elements == Redis(cmd)
       IN Complete(h, "elements", None, <<cmd>>, all_elements.store, all_elements.reply, <<>>)

CappedCollection_elements_as_json(h) ==
    /\ h.type = "CappedCollection"
    /\ LET cmd == LRANGE(h.key, 0, -1)
           all_elements == Redis(cmd)
       IN Complete(h, "elements_as_json", None, <<cmd>>, all_elements.store,
                   json_dumps(all_elements.reply), <<>>)

(***************************************************************************)
(* Stack                                                                   *)
(***************************************************************************)
Stack_push(h, element) ==
    /\ h.type = "Stack"
    /\ LET cmd == LPUSH(h.key, element)
           push_it == Redis(cmd)
       IN Complete(h, "push", Str(element), <<cmd>>, push_it.store, None,
                   <<Pushed(element, h.key)>>)

\* Mutant: the pop reads the head by index, which raises on an empty list.
Stack_pop_raising(h) ==
    /\ h.type = "Stack"
    /\ LET cmd == LPOP(h.key)
           popped == Redis(cmd)
       IN IF popped.reply = None
          THEN Complete(h, "pop", None, <<cmd>>, popped.store, [t |-> "raised", v |-> "IndexError"], <<>>)
          ELSE Complete(h, "pop", None, <<cmd>>, popped.store, popped.reply,
                        <<Popped(popped.reply, h.key)>>)

\* Mutant: the pop takes from the end opposite to the one the push adds to.
Stack_pop_rpop(h) ==
    /\ h.type = "Stack"
    /\ LET cmd == RPOP(h.key)
           popped == Redis(cmd)
       IN Complete(h, "pop", None, <<cmd>>, popped.store, popped.reply,
                   <<Popped(popped.reply, h.key)>>)

Stack_pop(h) ==
    /\ h.type = "Stack"
    /\ LET cmd == LPOP(h.key)
           popped == Redis(cmd)
       IN Complete(h, "pop", None, <<cmd>>, popped.store, popped.reply,
                   <<Popped(popped.reply, h.key)>>)

Stack_elements(h) ==
    /\ h.type = "Stack"
    /\ LET cmd == LRANGE(h.key, 0, -1)
           all_elements == Redis(cmd)
       IN Complete(h, "elements", None, <<cmd>>, all_elements.store, all_elements.reply, <<>>)

Stack_elements_as_json(h) ==
    /\ h.type = "Stack"
    /\ LET cmd == LRANGE(h.key, 0, -1)
           all_elements == Redis(cmd)
       IN Complete(h, "elements_as_json", None, <<cmd>>, all_elements.store,
                   json_dumps(all_elements.reply), <<>>)

(***************************************************************************)
(* Scenarios: the handles constructed, on a server that holds no list yet. *)
(***************************************************************************)
Start(hs, n) ==
    /\ handles = hs
    /\ calls = n
    /\ store = [k \in Keys |-> <<>>]
    /\ nullmultibulk \in BOOLEAN
    /\ log = <<>>
    /\ hist = <<>>

DequeCalls ==
    \/ \E h \in handles, element \in Elements : Deque_pushback(h, element)
    \/ \E h \in handles, element \in Elements : Deque_pushfront(h, element)
    \/ \E h \in handles : Deque_popfront(h)
    \/ \E h \in handles : Deque_popback(h)
    \/ \E h \in handles : Deque_elements(h)
    \/ \E h \in handles : Deque_elements_as_json(h)

QueueCalls ==
    \/ \E h \in handles, element \in Elements : Queue_push(h, element)
    \/ \E h \in handles : Queue_pop(h)
    \/ \E h \in handles : Queue_elements(h)
    \/ \E h \in handles : Queue_elements_as_json(h)

CappedCollectionCalls ==
    \/ \E h \in handles, element \in Elements : CappedCollection_push(h, element)
    \/ \E h \in handles : CappedCollection_pop(h)
    \/ \E h \in handles : CappedCollection_elements(h)
    \/ \E h \in handles : CappedCollection_elements_as_json(h)

StackCalls ==
    \/ \E h \in handles, element \in Elements : Stack_push(h, element)
    \/ \E h \in handles : Stack_pop(h)
    \/ \E h \in handles : Stack_elements(h)
    \/ \E h \in handles : Stack_elements_as_json(h)

\* One client, one Queue.
InitQueue == Start({Handle("c1", "Queue", "A", 0)}, MaxCalls)
SpecQueue == InitQueue /\ [][QueueCalls]_vars

\* One client, one Stack.
InitStack == Start({Handle("c1", "Stack", "A", 0)}, MaxCalls)
SpecStack == InitStack /\ [][StackCalls]_vars

\* One client, one Deque.
InitDeque == Start({Handle("c1", "Deque", "A", 0)}, MaxDequeCalls)
SpecDeque == InitDeque /\ [][DequeCalls]_vars

\* One client, one CappedCollection of any size from 0.
InitCapped ==
    \E size \in 0..MaxSize : Start({Handle("c1", "CappedCollection", "A", size)}, MaxCalls)
SpecCapped == InitCapped /\ [][CappedCollectionCalls]_vars

\* Several clients, each with its own CappedCollection on one key, all of one positive size.
InitCappedClients ==
    \E size \in 1..MaxSize :
        Start({Handle(c, "CappedCollection", "A", size) : c \in Clients}, MaxSharedCalls + 1)
SpecCappedClients == InitCappedClients /\ [][CappedCollectionCalls]_vars

\* One client with a handle of each type, all on one key.
InitAll ==
    Start({Handle("c1", "Deque", "A", 0), Handle("c1", "Queue", "A", 0),
           Handle("c1", "Stack", "A", 0), Handle("c1", "CappedCollection", "A", MaxSize)},
          MaxSharedCalls)
NextAll == DequeCalls \/ QueueCalls \/ StackCalls \/ CappedCollectionCalls
Spec == InitAll /\ [][NextAll]_vars

(***************************************************************************)
(* Reading the history.                                                    *)
(***************************************************************************)
Last == hist[Len(hist)]

IsPush(c) == c.op \in {"push", "pushback", "pushfront"}

IsPop(c) == c.op \in {"pop", "popfront", "popback"}

\* The elements pushed by the calls of a history of pushes, oldest first.
Args(pushes) == [i \in 1..Len(pushes) |-> pushes[i].arg.v]

\* The n most recent of the elements pushed, most recent first.
MostRecent(pushed, n) == [i \in 1..n |-> pushed[Len(pushed) - i + 1]]

Min(a, b) == IF a < b THEN a ELSE b

(***************************************************************************)
(* C1.  A CappedCollection of positive capacity k on a fresh key: after m  *)
(* pushes and nothing else (m >= 1), the list holds, and elements()        *)
(* returns, exactly the min(m, k) most recently pushed elements, most      *)
(* recent first.                                                           *)
(***************************************************************************)
C1_CappedKeepsMostRecent ==
    \A h \in handles : \A m \in 1..Len(hist) :
        (h.size >= 1 /\ \A i \in 1..m : hist[i].op = "push")
        => LET kept == MostRecent(Args(SubSeq(hist, 1, m)), Min(m, h.size))
           IN /\ (Len(hist) = m => store[h.key] = kept)
              /\ (Len(hist) > m /\ hist[m + 1].op = "elements"
                    => hist[m + 1].ret = List(kept) /\ Len(hist[m + 1].ret.v) = Min(m, h.size))

\* More pushes than the capacity holds, of different elements, then elements().
C1_Witness ==
    /\ Len(hist) >= 4
    /\ \A i \in 1..(Len(hist) - 1) : hist[i].op = "push"
    /\ Last.op = "elements"
    /\ Last.h.size = 2
    /\ Len(Last.ret.v) = 2
    /\ hist[1].arg # hist[2].arg
    /\ hist[2].arg # hist[3].arg

(***************************************************************************)
(* C2.  Clients pushing, popping and reading concurrently through          *)
(* CappedCollection handles of one positive capacity k on one key: the     *)
(* list never holds more than k elements, and no elements() call of any    *)
(* client returns more than k.                                             *)
(***************************************************************************)
C2_NeverLongerThanCapacity ==
    \A h \in handles :
        /\ Len(store[h.key]) <= h.size
        /\ \A i \in 1..Len(hist) :
              (hist[i].op = "elements" /\ hist[i].ret # None) => Len(hist[i].ret.v) <= h.size

\* Two clients have pushed more than the capacity between them, and a third call reads a full list.
C2_Witness ==
    /\ Len(hist) >= 3
    /\ hist[1].op = "push" /\ hist[2].op = "push" /\ hist[1].h.client # hist[2].h.client
    /\ Last.op = "elements"
    /\ Last.h.size = 1
    /\ Len(Last.ret.v) = 1

(***************************************************************************)
(* C3.  A CappedCollection of capacity 0: after every push through it the  *)
(* list is empty.                                                          *)
(***************************************************************************)
C3_CapacityZeroKeepsNothing ==
    (Len(hist) >= 1 /\ Last.op = "push" /\ Last.h.size = 0) => store[Last.h.key] = <<>>

(***************************************************************************)
(* C4.  A Queue on a fresh key, one client: n pushes followed by pops      *)
(* return the elements in the order they were pushed, and after the n-th   *)
(* pop the list is empty.                                                  *)
(***************************************************************************)
C4_QueueFifo ==
    \A n \in 0..Len(hist) : \A j \in 0..n :
        (/\ Len(hist) = n + j
         /\ \A i \in 1..n : hist[i].op = "push"
         /\ \A i \in 1..j : hist[n + i].op = "pop")
        => /\ \A i \in 1..j : hist[n + i].ret = hist[i].arg
           /\ Len(store["A"]) = n - j
           /\ (j = n => store["A"] = <<>>)

\* Two different elements pushed, then both popped.
C4_Witness ==
    /\ Len(hist) = 4
    /\ hist[1].op = "push" /\ hist[2].op = "push" /\ hist[1].arg # hist[2].arg
    /\ hist[3].op = "pop" /\ hist[4].op = "pop"
    /\ hist[3].ret = hist[1].arg /\ hist[4].ret = hist[2].arg
    /\ store["A"] = <<>>

(***************************************************************************)
(* C5.  A Stack on a fresh key, one client: every pop returns the most     *)
(* recently pushed element not popped yet (None when there is none), so n  *)
(* pushes followed by n pops return the elements in reverse order.         *)
(***************************************************************************)
\* The elements pushed and not popped after the first n calls, oldest first.
RECURSIVE Unpopped(_)
Unpopped(n) ==
    IF n = 0 THEN <<>>
    ELSE LET before == Unpopped(n - 1)
         IN IF hist[n].op = "push" THEN Append(before, hist[n].arg)
            ELSE IF hist[n].op = "pop" /\ before # <<>> THEN SubSeq(before, 1, Len(before) - 1)
            ELSE before

C5_StackLifo ==
    /\ \A i \in 1..Len(hist) :
          hist[i].op = "pop"
          => LET before == Unpopped(i - 1)
             IN hist[i].ret = IF before = <<>> THEN None ELSE before[Len(before)]
    /\ \A n \in 0..Len(hist) :
          (/\ Len(hist) = 2 * n
           /\ \A i \in 1..n : hist[i].op = "push"
           /\ \A i \in 1..n : hist[n + i].op = "pop")
          => \A i \in 1..n : hist[n + i].ret = hist[n - i + 1].arg

\* Two different elements pushed, then both popped, the later one first.
C5_Witness ==
    /\ Len(hist) = 4
    /\ hist[1].op = "push" /\ hist[2].op = "push" /\ hist[1].arg # hist[2].arg
    /\ hist[3].op = "pop" /\ hist[4].op = "pop"
    /\ hist[3].ret = hist[2].arg /\ hist[4].ret = hist[1].arg

(***************************************************************************)
(* C6.  The ends of a Deque.  As claimed: pushback sends the push-right    *)
(* and appends the element as the new tail, pushfront sends the push-left  *)
(* and prepends it as the new head; popfront (pop-right) removes and       *)
(* returns the tail, popback (pop-left) the head.                          *)
(***************************************************************************)
\* What a pop of the Deque does, on both readings: popfront takes the tail, popback the head.
DequePops(c, before, after) ==
    /\ c.op = "popfront"
       => /\ c.cmds = <<RPOP(c.h.key)>>
          /\ IF before = <<>> THEN after = <<>> /\ c.ret = None
             ELSE after = SubSeq(before, 1, Len(before) - 1) /\ c.ret = Str(before[Len(before)])
    /\ c.op = "popback"
       => /\ c.cmds = <<LPOP(c.h.key)>>
          /\ IF before = <<>> THEN after = <<>> /\ c.ret = None
             ELSE after = Tail(before) /\ c.ret = Str(Head(before))

C6_AsClaimed ==
    [][Len(hist') = Len(hist) + 1
       => LET c == Last'
              before == store[c.h.key]
              after == store'[c.h.key]
          IN /\ c.op = "pushback"
                => c.cmds = <<RPUSH(c.h.key, c.arg.v)>> /\ after = before \o <<c.arg.v>>
             /\ c.op = "pushfront"
                => c.cmds = <<LPUSH(c.h.key, c.arg.v)>> /\ after = <<c.arg.v>> \o before
             /\ DequePops(c, before, after)]_vars

(***************************************************************************)
(* C6, amended.  pushback sends the push-left and prepends the element as  *)
(* the new head of the list, pushfront sends the push-right and appends it *)
(* as the new tail; popfront (pop-right) removes and returns the tail,     *)
(* popback (pop-left) the head.                                            *)
(***************************************************************************)
C6_DequeEnds ==
    [][Len(hist') = Len(hist) + 1
       => LET c == Last'
              before == store[c.h.key]
              after == store'[c.h.key]
          IN /\ c.op = "pushback"
                => c.cmds = <<LPUSH(c.h.key, c.arg.v)>> /\ after = <<c.arg.v>> \o before
             /\ c.op = "pushfront"
                => c.cmds = <<RPUSH(c.h.key, c.arg.v)>> /\ after = before \o <<c.arg.v>>
             /\ DequePops(c, before, after)]_vars

\* A pushback onto a list that holds another element: the new element is the head, not the tail.
C6_Witness ==
    /\ Len(hist) >= 2
    /\ Last.op = "pushback"
    /\ Len(store["A"]) >= 2
    /\ store["A"][1] = Last.arg.v
    /\ store["A"][Len(store["A"])] # Last.arg.v

(***************************************************************************)
(* C7.  A Deque on an empty or absent key: pushback(e) immediately         *)
(* followed by popfront() returns e and leaves the list empty.             *)
(***************************************************************************)
\* The elements pushed in the first n calls less the elements popped in them.
Held(n) ==
    Cardinality({i \in 1..n : IsPush(hist[i])})
    - Cardinality({i \in 1..n : IsPop(hist[i]) /\ hist[i].ret # None})

C7_PushbackPopfront ==
    \A i \in 1..(Len(hist) - 1) :
        (hist[i].op = "pushback" /\ hist[i + 1].op = "popfront" /\ Held(i - 1) = 0)
        => /\ hist[i + 1].ret = hist[i].arg
           /\ (Len(hist) = i + 1 => store[hist[i].h.key] = <<>>)

\* The round trip on the fresh key, and again on the key it emptied.
C7_Witness ==
    /\ Len(hist) = 4
    /\ hist[1].op = "pushback" /\ hist[2].op = "popfront" /\ hist[2].ret = hist[1].arg
    /\ hist[3].op = "pushback" /\ hist[4].op = "popfront" /\ hist[4].ret = hist[3].arg
    /\ hist[1].arg # hist[3].arg
    /\ store["A"] = <<>>

(***************************************************************************)
(* C8.  On every handle type, a pop (pop, popfront, popback) of a list     *)
(* that is empty, never written or emptied by pops, returns None as a      *)
(* value and leaves the list empty.                                        *)
(***************************************************************************)
C8_EmptyPopReturnsNone ==
    [][(Len(hist') = Len(hist) + 1 /\ IsPop(Last') /\ store[Last'.h.key] = <<>>)
       => (Last'.ret = None /\ store'[Last'.h.key] = <<>>)]_vars

\* An element pushed and popped, then a pop through a handle of another type returns None.
C8_Witness ==
    /\ Len(hist) = 3
    /\ IsPush(hist[1])
    /\ IsPop(hist[2]) /\ hist[2].ret = hist[1].arg
    /\ IsPop(hist[3]) /\ hist[3].ret = None /\ hist[3].h.type # hist[2].h.type
    /\ store["A"] = <<>>

(***************************************************************************)
(* C9.  Every push and every pop on every handle type hands exactly one    *)
(* record to the logger, naming the operation, the element (None for an    *)
(* empty pop) and the key.                                                 *)
(***************************************************************************)
C9_EveryPushAndPopLogs ==
    [][(Len(hist') = Len(hist) + 1 /\ (IsPush(Last') \/ IsPop(Last')))
       => LET c == Last'
          IN log' = Append(log, [verb |-> IF IsPush(c) THEN "Pushed" ELSE "Popped",
                                 element |-> IF IsPush(c) THEN c.arg.v
                                             ELSE IF c.ret = None THEN "None" ELSE c.ret.v,
                                 key |-> c.h.key])]_vars

(***************************************************************************)
(* C10.  On every handle type and in every list state, elements_as_json()  *)
(* returns the JSON text of exactly the value elements() returns when no   *)
(* call comes between the two: decoded, it is the same elements in the     *)
(* same order.                                                             *)
(***************************************************************************)
Invalid == [t |-> "invalid"]

\* The string that starts after an opening quote at s[i]: its text, and the index after its closing quote.
RECURSIVE ParseString(_, _, _)
ParseString(s, i, acc) ==
    IF i > Len(s) THEN Invalid
    ELSE IF s[i] = "\"" THEN [t |-> "parsed", v |-> acc, next |-> i + 1]
    ELSE IF s[i] = "\\" THEN (IF i + 1 > Len(s) THEN Invalid ELSE ParseString(s, i + 2, acc \o s[i + 1]))
    ELSE ParseString(s, i + 1, acc \o s[i])

\* The items of an array from s[i], the place of an item, to the closing bracket that ends s.
RECURSIVE ParseItems(_, _, _)
ParseItems(s, i, acc) ==
    IF i > Len(s) \/ s[i] # "\"" THEN Invalid
    ELSE LET item == ParseString(s, i + 1, "")
         IN IF item = Invalid THEN Invalid
            ELSE IF item.next = Len(s) /\ s[item.next] = "]" THEN List(Append(acc, item.v))
            ELSE IF item.next + 1 < Len(s) /\ s[item.next] = "," /\ s[item.next + 1] = " "
                 THEN ParseItems(s, item.next + 2, Append(acc, item.v))
            ELSE Invalid

json_loads(text) ==
    LET s == text.v
    IN IF s = <<"n", "u", "l", "l">> THEN None
       ELSE IF s = <<"[", "]">> THEN List(<<>>)
       ELSE IF Len(s) >= 2 /\ s[1] = "[" THEN ParseItems(s, 2, <<>>)
       ELSE Invalid

C11_ElementsReadsWholeList ==
    [][(Len(hist') = Len(hist) + 1 /\ Last'.op \in {"elements", "elements_as_json"})
       => /\ store' = store
          /\ (Last'.op = "elements" => Last'.ret = List(store[Last'.h.key]))]_vars

(***************************************************************************)
(* C12.  A CappedCollection of capacity k >= 1 on a fresh key, one client: *)
(* after pushes e1..em, the pops return the min(m, k) elements that        *)
(* survive the trims, oldest first, and None after them; a pop returns the *)
(* last element of the list elements() has just returned.                  *)
(***************************************************************************)
C12_CappedPopsOldestSurviving ==
    /\ \A h \in handles : \A m \in 1..Len(hist) :
          (/\ h.size >= 1
           /\ \A i \in 1..m : hist[i].op = "push"
           /\ \A i \in (m + 1)..Len(hist) : hist[i].op = "pop")
          => LET pushed == Args(SubSeq(hist, 1, m))
                 surviving == Min(m, h.size)
             IN \A i \in 1..(Len(hist) - m) :
                   hist[m + i].ret = IF i <= surviving THEN Str(pushed[m - surviving + i])
                                     ELSE None
    /\ \A i \in 1..(Len(hist) - 1) :
          (hist[i].op = "elements" /\ hist[i + 1].op = "pop"
           /\ hist[i].ret # None /\ hist[i].ret # List(<<>>))
          => hist[i + 1].ret = Str(hist[i].ret.v[Len(hist[i].ret.v)])

\* Three pushes into a capacity of two, the first different from the second, then two pops.
C12_Witness ==
    /\ Len(hist) = 5
    /\ \A i \in 1..3 : hist[i].op = "push"
    /\ hist[4].op = "pop" /\ hist[5].op = "pop"
    /\ hist[1].h.size = 2
    /\ hist[1].arg # hist[2].arg /\ hist[2].arg # hist[3].arg
    /\ hist[4].ret = hist[2].arg /\ hist[5].ret = hist[3].arg

(***************************************************************************)
(* Handles of several types on one key: a Queue, a Stack and a Deque push  *)
(* onto the list of two CappedCollections, one a size larger than the      *)
(* other.                                                                  *)
(***************************************************************************)
InitMixed ==
    Start({Handle("c1", "Queue", "A", 0), Handle("c1", "Stack", "A", 0),
           Handle("c1", "Deque", "A", 0),
           Handle("c1", "CappedCollection", "A", MaxSize - 1),
           Handle("c2", "CappedCollection", "A", MaxSize)},
          MaxSharedCalls + 1)

MixedCalls ==
    \/ \E h \in handles, element \in Elements : Queue_push(h, element)
    \/ \E h \in handles, element \in Elements : Stack_push(h, element)
    \/ \E h \in handles, element \in Elements : Deque_pushfront(h, element)
    \/ \E h \in handles, element \in Elements : CappedCollection_push(h, element)
    \/ \E h \in handles : CappedCollection_elements(h)

SpecMixed == InitMixed /\ [][MixedCalls]_vars

(***************************************************************************)
(* C13.  On a key that handles of other types, or a CappedCollection of a  *)
(* larger size, push onto as well, the list can be longer than the         *)
(* capacity k >= 1 of a CappedCollection; right after a push through that  *)
(* CappedCollection it holds at most k elements, whatever it held before.  *)
(***************************************************************************)
C13_AtMostCapacityAfterCappedPush ==
    (Len(hist) >= 1 /\ Last.h.type = "CappedCollection" /\ Last.op = "push" /\ Last.h.size >= 1)
    => Len(store[Last.h.key]) <= Last.h.size

\* Pushes of other handles make the list longer than the capacity, as elements() of the
\* CappedCollection shows; its next push cuts the list to the capacity.
C13_Witness ==
    /\ Len(hist) = 4
    /\ hist[1].op = "push" /\ hist[1].h.type # "CappedCollection"
    /\ hist[2].op \in {"push", "pushfront"} /\ hist[2].h.type # "CappedCollection"
    /\ hist[3].op = "elements" /\ Len(hist[3].ret.v) > hist[3].h.size
    /\ hist[4].op = "push" /\ hist[4].h = hist[3].h
    /\ Len(store["A"]) = hist[4].h.size

(***************************************************************************)
(* Producers and consumers: two clients push and pop concurrently on one   *)
(* key through Queue, Stack and Deque handles.                             *)
(***************************************************************************)
InitProducersConsumers ==
    Start({Handle("c1", "Queue", "A", 0), Handle("c2", "Queue", "A", 0),
           Handle("c1", "Deque", "A", 0), Handle("c2", "Stack", "A", 0)},
          MaxSharedCalls)

ProducerConsumerCalls ==
    \/ \E h \in handles, element \in Elements : Queue_push(h, element)
    \/ \E h \in handles : Queue_pop(h)
    \/ \E h \in handles, element \in Elements : Stack_push(h, element)
    \/ \E h \in handles : Stack_pop(h)
    \/ \E h \in handles, element \in Elements : Deque_pushback(h, element)
    \/ \E h \in handles, element \in Elements : Deque_pushfront(h, element)
    \/ \E h \in handles : Deque_popfront(h)
    \/ \E h \in handles : Deque_popback(h)

SpecProducersConsumers == InitProducersConsumers /\ [][ProducerConsumerCalls]_vars

(***************************************************************************)
(* C14.  Concurrent producers and consumers on one Queue, Stack or Deque   *)
(* key: no element is lost or delivered twice (of every element, as many   *)
(* were pushed as were returned by pops or are in the list), and a pop     *)
(* returns None only when the list was empty when the pop was applied.     *)
(***************************************************************************)
PushedCount(e) == Cardinality({i \in 1..Len(hist) : IsPush(hist[i]) /\ hist[i].arg = Str(e)})

PoppedCount(e) == Cardinality({i \in 1..Len(hist) : IsPop(hist[i]) /\ hist[i].ret = Str(e)})

HeldCount(e, key) == Cardinality({i \in 1..Len(store[key]) : store[key][i] = e})

Conserved == \A e \in Elements : PushedCount(e) = PoppedCount(e) + HeldCount(e, "A")

C14_NothingLostOrDuplicated ==
    [][Len(hist') = Len(hist) + 1
       => /\ Conserved'
          /\ (IsPop(Last') /\ Last'.ret = None) => store[Last'.h.key] = <<>>]_vars

\* Two clients have pushed the same element, and a pop through a handle of another type
\* has returned one of the two.
C14_Witness ==
    /\ Len(hist) = 3
    /\ IsPush(hist[1]) /\ IsPush(hist[2])
    /\ hist[1].h.client # hist[2].h.client /\ hist[1].arg = hist[2].arg
    /\ IsPop(hist[3]) /\ hist[3].ret = hist[1].arg /\ hist[3].h.type # hist[2].h.type
    /\ Len(store["A"]) = 1

(***************************************************************************)
(* Producers on one Queue: two clients, each with its own Queue handle on  *)
(* the key, push elements that name the producer and the number of the     *)
(* push, and pop.                                                          *)
(***************************************************************************)
InitQueueProducers == Start({Handle(c, "Queue", "A", 0) : c \in Clients}, MaxCalls)

\* The pushes of client c so far.
PushedBy(c) == SelectSeq(hist, LAMBDA call : call.op = "push" /\ call.h.client = c)

\* The element client c pushes next.
Produced(c) == c \o "-" \o ToString(Len(PushedBy(c)) + 1)

QueueProducerCalls ==
    \/ \E h \in handles : Queue_push(h, Produced(h.client))
    \/ \E h \in handles : Queue_pop(h)

SpecQueueProducers == InitQueueProducers /\ [][QueueProducerCalls]_vars

(***************************************************************************)
(* C15.  Several producers pushing concurrently onto one Queue key, and    *)
(* consumers popping: the elements of any one producer are popped in the   *)
(* order that producer pushed them.                                        *)
(***************************************************************************)
\* The pops that returned an element client c pushed, in the order of the pops.
PoppedOf(c) ==
    SelectSeq(hist, LAMBDA call :
        /\ call.op = "pop"
        /\ \E i \in 1..Len(PushedBy(c)) : PushedBy(c)[i].arg = call.ret)

C15_PerProducerFifo ==
    \A c \in Clients :
        /\ Len(PoppedOf(c)) <= Len(PushedBy(c))
        /\ \A i \in 1..Len(PoppedOf(c)) : PoppedOf(c)[i].ret = PushedBy(c)[i].arg

\* The pushes of two producers interleave, c2 first, and three pops deliver them: those
\* of c1 in the order c1 pushed them.
C15_Witness ==
    /\ Len(hist) = 6
    /\ hist[1].op = "push" /\ hist[1].h.client = "c2"
    /\ hist[2].op = "push" /\ hist[2].h.client = "c1"
    /\ hist[3].op = "push" /\ hist[3].h.client = "c1"
    /\ \A i \in 4..6 : hist[i].op = "pop" /\ hist[i].ret = hist[i - 3].arg
    /\ Len(PoppedOf("c1")) = 2

(***************************************************************************)
(* A Deque beside a Queue or a Stack: one client holds a Deque on key A    *)
(* and a Queue or a Stack on key B, and repeats every push and every pop   *)
(* it makes on the Deque through the other handle, with the same element.  *)
(***************************************************************************)
InitDequeBeside ==
    \E type \in {"Queue", "Stack"} :
        Start({Handle("c1", "Deque", "A", 0), Handle("c1", type, "B", 0)}, 2 * MaxDequeCalls)

\* The client's next call is on the Deque.
DequeTurn == Len(hist) % 2 = 0

DequeBesideCalls ==
    \/ \E h \in handles, element \in Elements : DequeTurn /\ Deque_pushback(h, element)
    \/ \E h \in handles, element \in Elements : DequeTurn /\ Deque_pushfront(h, element)
    \/ \E h \in handles : DequeTurn /\ Deque_popfront(h)
    \/ \E h \in handles : DequeTurn /\ Deque_popback(h)
    \/ \E h \in handles : ~DequeTurn /\ IsPush(Last) /\ Queue_push(h, Last.arg.v)
    \/ \E h \in handles : ~DequeTurn /\ IsPop(Last) /\ Queue_pop(h)
    \/ \E h \in handles : ~DequeTurn /\ IsPush(Last) /\ Stack_push(h, Last.arg.v)
    \/ \E h \in handles : ~DequeTurn /\ IsPop(Last) /\ Stack_pop(h)

SpecDequeBeside == InitDequeBeside /\ [][DequeBesideCalls]_vars

(***************************************************************************)
(* C16.  A Deque used only through pushback and popfront behaves as a      *)
(* Queue, and one used only through pushback and popback as a Stack: for   *)
(* the same sequence of pushes and pops the two handles send the same      *)
(* commands, return the same values and leave the same list.  A Deque used *)
(* only through pushfront and popback returns what a Queue returns (first  *)
(* in, first out), one used only through pushfront and popfront what a     *)
(* Stack returns (last in, first out), the list being the other way round. *)
(***************************************************************************)
\* The type of the handle beside the Deque.
Beside == (CHOOSE h \in handles : h.key = "B").type

\* The Deque methods called so far.
DequeOps == {hist[i].op : i \in {j \in 1..Len(hist) : j % 2 = 1}}

\* The commands, sent to the key instead.
OnKey(cmds, key) == [j \in 1..Len(cmds) |-> [cmds[j] EXCEPT !.key = key]]

SameCommands ==
    \A i \in 1..(Len(hist) \div 2) : OnKey(hist[2 * i].cmds, "A") = hist[2 * i - 1].cmds

SameReturns ==
    \A i \in 1..(Len(hist) \div 2) : hist[2 * i].ret = hist[2 * i - 1].ret

Reverse(l) == [i \in 1..Len(l) |-> l[Len(l) - i + 1]]

C16_DequeAsQueueAndStack ==
    DequeTurn =>
        /\ (Beside = "Queue" /\ DequeOps \subseteq {"pushback", "popfront"})
           => SameCommands /\ SameReturns /\ store["A"] = store["B"]
        /\ (Beside = "Stack" /\ DequeOps \subseteq {"pushback", "popback"})
           => SameCommands /\ SameReturns /\ store["A"] = store["B"]
        /\ (Beside = "Queue" /\ DequeOps \subseteq {"pushfront", "popback"})
           => SameReturns /\ store["A"] = Reverse(store["B"])
        /\ (Beside = "Stack" /\ DequeOps \subseteq {"pushfront", "popfront"})
           => SameReturns /\ store["A"] = Reverse(store["B"])

\* Two different elements through pushback and the Queue's push, then two pops through
\* popfront and the Queue's pop: both handles return the first element first.
C16_Witness ==
    /\ Len(hist) = 8
    /\ Beside = "Queue"
    /\ hist[1].op = "pushback" /\ hist[3].op = "pushback" /\ hist[1].arg # hist[3].arg
    /\ hist[5].op = "popfront" /\ hist[7].op = "popfront"
    /\ hist[6].op = "pop" /\ hist[6].ret = hist[1].arg /\ hist[5].ret = hist[1].arg
    /\ hist[8].op = "pop" /\ hist[8].ret = hist[3].arg /\ hist[7].ret = hist[3].arg
    /\ hist[6].cmds = <<RPOP("B")>> /\ hist[5].cmds = <<RPOP("A")>>

(***************************************************************************)
(* Two keys: one client with a Deque and a CappedCollection of size 1 on   *)
(* key A, a Queue and a Stack on key B.                                    *)
(***************************************************************************)
InitTwoKeys ==
    Start({Handle("c1", "Deque", "A", 0), Handle("c1", "CappedCollection", "A", 1),
           Handle("c1", "Queue", "B", 0), Handle("c1", "Stack", "B", 0)},
          MaxSharedCalls)

SpecTwoKeys == InitTwoKeys /\ [][NextAll]_vars

(***************************************************************************)
(* C17.  Every call through a handle sends its commands to that handle's   *)
(* own key only, leaves the list at every other key as it was, and leaves  *)
(* every handle's key and size as they were: calls through the handles on  *)
(* A, the trim of CappedCollection.push included, never change the list    *)
(* at B.                                                                   *)
(***************************************************************************)
C17_OwnKeyOnly ==
    [][Len(hist') = Len(hist) + 1
       => LET c == Last'
          IN /\ handles' = handles
             /\ c.h \in handles
             /\ \A j \in 1..Len(c.cmds) : c.cmds[j].key = c.h.key
             /\ \A key \in Keys \ {c.h.key} : store'[key] = store[key]]_vars

\* The list at B is longer than the CappedCollection's size, and a push through the
\* CappedCollection on A, trim included, has left it whole.
C17_Witness ==
    /\ Len(hist) = 3
    /\ Last.h.type = "CappedCollection" /\ Last.op = "push" /\ Last.h.key = "A"
    /\ Len(Last.cmds) = 2
    /\ store["A"] = <<Last.arg.v>>
    /\ Len(store["B"]) = 2
    /\ Len(store["B"]) > Last.h.size

====
